---- MODULE Spec2Model ----
(***************************************************************************)
(* Model of BlockscapeNetwork/pairmint (SignCTRL):                         *)
(*   - types/signctrled.go : BaseSignCtrled, the rank / missed-blocks      *)
(*     counter (LockCounter, UnlockCounter, Missed, Reset, Promote and     *)
(*     the two setters);                                                   *)
(*   - privval/sc_file.go  : SCFilePV, the service that runs the message   *)
(*     loop (run, OnStart, OnStop).                                        *)
(***************************************************************************)
EXTENDS Integers, Sequences, FiniteSets, TLC

(***************************************************************************)
(* Bounds of the model and constants of the program.                       *)
(***************************************************************************)
\* Largest threshold and largest starting rank that are explored.
MaxThreshold == 3
MaxRank == 3
\* Heights are explored up to MaxHeight; Missed is not called above it.
MaxHeight == 4
\* missedInARow is explored up to MaxMissed; Missed is not called above it.
MaxMissed == 5
\* Promote is explored down to rank -MaxBelow.
MaxBelow == 2
\* Length up to which a run of consecutive Missed calls is counted.
MaxRun == 12
\* Successful Start() calls, and Stop() calls from outside, that are explored.
MaxStarts == 2
MaxStops == 2

\* config template: "threshold ... Must be 2 or higher."
MinThreshold == 2
\* config template: "start_rank = 0".
TemplateStartRank == 0
\* NewBaseSignCtrled: currentHeight: 1.
GenesisHeight == 1

Thresholds == MinThreshold..MaxThreshold
StartRanks == TemplateStartRank..MaxRank
Heights == GenesisHeight..MaxHeight

\* The threads: the caller from outside and the run() goroutines.
External == 0
Loops == 1..MaxStarts
Threads == {External} \cup Loops

\* The error values of types/signctrled.go; Nil is Go's nil error.
Nil == "nil"
ErrThresholdExceeded == "ErrThresholdExceeded"
ErrMustShutdown == "ErrMustShutdown"
ErrCounterLocked == "ErrCounterLocked"

VARIABLES
    bsc,    \* the BaseSignCtrled struct: counterLocked, currentHeight,
            \* missedInARow, threshold, rank
    last,   \* history: the last call on bsc, its return value, the struct
            \* before it, the Promote() invocations it made, the call
            \* before it and whether UnlockCounter() was ever called
    run,    \* history: the current run of consecutive Missed() calls
    running,     \* BaseService: the service is Running (TRUE) or Stopped
    starts,      \* the number of successful OnStart calls so far
    secretConn,  \* pv.SecretConn: the connection of the latest OnStart
    closes,      \* per connection, the Close() calls made on it
    pc,          \* per thread, where it is in its code
    herr,        \* per loop, the err that HandleRequest returned
    stopCalls,   \* history: per thread, its calls of pv.Stop()
    onStops,     \* history: per thread, the OnStop() runs its Stop() made
    termSignals, \* history: the number of signals received from pv.TermCh
    iter,        \* history: per loop, its current iteration: the result of
                 \* the read, the HandleRequest calls, the WriteMsg calls
                 \* and the result of the write
    closedAt     \* history: per thread inside OnStop, the connection that
                 \* its pv.SecretConn.Close() closed (0: none yet)

svcVars == <<running, starts, secretConn, closes, pc, herr, stopCalls,
             onStops, termSignals, iter, closedAt>>

vars == <<bsc, last, run, svcVars>>

(***************************************************************************)
(* BaseSignCtrled                                                          *)
(***************************************************************************)
\* NewBaseSignCtrled as it would be with the counter left unlocked.
NewBaseSignCtrledUnlocked(threshold, rank) ==
    [counterLocked |-> FALSE,
     currentHeight |-> GenesisHeight,
     missedInARow  |-> 0,
     threshold     |-> threshold,
     rank          |-> rank]

NewBaseSignCtrled(threshold, rank) ==
    [counterLocked |-> TRUE,
     currentHeight |-> GenesisHeight,
     missedInARow  |-> 0,
     threshold     |-> threshold,
     rank          |-> rank]

\* LockCounter as it would be if locking also cleared the counted misses.
LockCounterClears(s) ==
    IF ~s.counterLocked
    THEN [s EXCEPT !.counterLocked = TRUE, !.missedInARow = 0]
    ELSE s

LockCounter(s) ==
    IF ~s.counterLocked THEN [s EXCEPT !.counterLocked = TRUE] ELSE s

UnlockCounter(s) ==
    IF s.counterLocked THEN [s EXCEPT !.counterLocked = FALSE] ELSE s

SetCurrentHeight(s, height) == [s EXCEPT !.currentHeight = height]

SetRank(s, rank) == [s EXCEPT !.rank = rank]

Reset(s) ==
    IF s.missedInARow > 0 THEN [s EXCEPT !.missedInARow = 0] ELSE s

\* Promote as it would be with the counter reset ahead of the rank check.
PromoteResetFirst(s) ==
    IF s.rank = 1
    THEN [st |-> Reset(s), err |-> ErrMustShutdown]
    ELSE [st |-> Reset([s EXCEPT !.rank = @ - 1]), err |-> Nil]

\* Promote as it would be with the rank moved the wrong way.
PromoteRankUp(s) ==
    IF s.rank = 1
    THEN [st |-> s, err |-> ErrMustShutdown]
    ELSE [st |-> Reset([s EXCEPT !.rank = @ + 1]), err |-> Nil]

\* Promote as it would be with every rank up to 1 rejected.
PromoteRejectsBelowOne(s) ==
    IF s.rank <= 1
    THEN [st |-> s, err |-> ErrMustShutdown]
    ELSE [st |-> Reset([s EXCEPT !.rank = @ - 1]), err |-> Nil]

\* Promote as it would be without the reset of the counter.
PromoteNoReset(s) ==
    IF s.rank = 1
    THEN [st |-> s, err |-> ErrMustShutdown]
    ELSE [st |-> [s EXCEPT !.rank = @ - 1], err |-> Nil]

\* Promote returns the struct after the call and the error.
Promote(s) ==
    IF s.rank = 1
    THEN [st |-> s, err |-> ErrMustShutdown]
    ELSE [st |-> Reset([s EXCEPT !.rank = @ - 1]), err |-> Nil]

\* Missed as it would be with the threshold compared one call late.
MissedLate(s) ==
    IF s.counterLocked
    THEN [st |-> s, err |-> ErrCounterLocked, calls |-> 0, promoted |-> 0]
    ELSE LET s1 == [s EXCEPT !.missedInARow = @ + 1] IN
         IF s1.missedInARow <= s1.threshold
         THEN [st |-> s1, err |-> Nil, calls |-> 0, promoted |-> 0]
         ELSE IF s1.missedInARow = s1.threshold + 1
         THEN LET p == Promote(s1) IN
              IF p.err # Nil
              THEN [st |-> p.st, err |-> p.err, calls |-> 1, promoted |-> 0]
              ELSE [st |-> [p.st EXCEPT !.currentHeight = @ + 1],
                    err |-> ErrThresholdExceeded, calls |-> 1, promoted |-> 1]
         ELSE [st |-> s1, err |-> Nil, calls |-> 0, promoted |-> 0]

\* Missed as it would be without the check of the lock.
MissedNoLock(s) ==
    LET s1 == [s EXCEPT !.missedInARow = @ + 1] IN
    IF s1.missedInARow < s1.threshold
    THEN [st |-> s1, err |-> Nil, calls |-> 0, promoted |-> 0]
    ELSE IF s1.missedInARow = s1.threshold
    THEN LET p == Promote(s1) IN
         IF p.err # Nil
         THEN [st |-> p.st, err |-> p.err, calls |-> 1, promoted |-> 0]
         ELSE [st |-> [p.st EXCEPT !.currentHeight = @ + 1],
               err |-> ErrThresholdExceeded, calls |-> 1, promoted |-> 1]
    ELSE [st |-> s1, err |-> Nil, calls |-> 0, promoted |-> 0]

\* Missed as it would be with the error of Promote dropped.
MissedDropsErr(s) ==
    IF s.counterLocked
    THEN [st |-> s, err |-> ErrCounterLocked, calls |-> 0, promoted |-> 0]
    ELSE LET s1 == [s EXCEPT !.missedInARow = @ + 1] IN
         IF s1.missedInARow < s1.threshold
         THEN [st |-> s1, err |-> Nil, calls |-> 0, promoted |-> 0]
         ELSE IF s1.missedInARow = s1.threshold
         THEN LET p == Promote(s1) IN
              [st |-> [p.st EXCEPT !.currentHeight = @ + 1],
               err |-> ErrThresholdExceeded, calls |-> 1,
               promoted |-> IF p.err = Nil THEN 1 ELSE 0]
         ELSE [st |-> s1, err |-> Nil, calls |-> 0, promoted |-> 0]

\* Missed as it would be without the skip of the next height.
MissedNoSkip(s) ==
    IF s.counterLocked
    THEN [st |-> s, err |-> ErrCounterLocked, calls |-> 0, promoted |-> 0]
    ELSE LET s1 == [s EXCEPT !.missedInARow = @ + 1] IN
         IF s1.missedInARow < s1.threshold
         THEN [st |-> s1, err |-> Nil, calls |-> 0, promoted |-> 0]
         ELSE IF s1.missedInARow = s1.threshold
         THEN LET p == Promote(s1) IN
              IF p.err # Nil
              THEN [st |-> p.st, err |-> p.err, calls |-> 1, promoted |-> 0]
              ELSE [st |-> p.st,
                    err |-> ErrThresholdExceeded, calls |-> 1, promoted |-> 1]
         ELSE [st |-> s1, err |-> Nil, calls |-> 0, promoted |-> 0]

\* Missed returns the struct after the call, the error, the number of
\* Promote() invocations it made and the number of those that succeeded.
Missed(s) ==
    IF s.counterLocked
    THEN [st |-> s, err |-> ErrCounterLocked, calls |-> 0, promoted |-> 0]
    ELSE LET s1 == [s EXCEPT !.missedInARow = @ + 1] IN
         IF s1.missedInARow < s1.threshold
         THEN [st |-> s1, err |-> Nil, calls |-> 0, promoted |-> 0]
         ELSE IF s1.missedInARow = s1.threshold
         THEN LET p == Promote(s1) IN
              IF p.err # Nil
              THEN [st |-> p.st, err |-> p.err, calls |-> 1, promoted |-> 0]
              ELSE [st |-> [p.st EXCEPT !.currentHeight = @ + 1],
                    err |-> ErrThresholdExceeded, calls |-> 1, promoted |-> 1]
         ELSE [st |-> s1, err |-> Nil, calls |-> 0, promoted |-> 0]

(***************************************************************************)
(* History of the calls.                                                   *)
(***************************************************************************)
\* A call op on bsc that returned err and left the struct st.
Record(op, st, err, calls, promoted) ==
    /\ bsc' = st
    /\ last' = [op |-> op, err |-> err, pre |-> bsc,
                calls |-> calls, promoted |-> promoted,
                prev |-> last.op,
                unlocked |-> last.unlocked \/ op = "UnlockCounter"]
    /\ run' = IF op = "Missed"
              THEN [len      |-> run.len + 1,
                    start    |-> IF run.len = 0 THEN bsc ELSE run.start,
                    calls    |-> run.calls + calls,
                    promoted |-> run.promoted + promoted]
              ELSE [len |-> 0, start |-> st, calls |-> 0, promoted |-> 0]

\* The calls are explored while the counters are within the bounds.
CounterWithinBounds ==
    /\ bsc.rank > -MaxBelow
    /\ bsc.currentHeight < MaxHeight
    /\ bsc.missedInARow < MaxMissed

WithinBounds ==
    /\ CounterWithinBounds
    /\ run.len < MaxRun

(***************************************************************************)
(* The calls a user of BaseSignCtrled can make.                            *)
(***************************************************************************)
CallLockCounter ==
    /\ Record("LockCounter", LockCounter(bsc), "void", 0, 0)
    /\ UNCHANGED svcVars

CallUnlockCounter ==
    /\ Record("UnlockCounter", UnlockCounter(bsc), "void", 0, 0)
    /\ UNCHANGED svcVars

CallReset ==
    /\ Record("Reset", Reset(bsc), "void", 0, 0)
    /\ UNCHANGED svcVars

CallPromote ==
    /\ bsc.rank > -MaxBelow
    /\ LET p == Promote(bsc) IN
       Record("Promote", p.st, p.err, 1, IF p.err = Nil THEN 1 ELSE 0)
    /\ UNCHANGED svcVars

CallMissed ==
    /\ WithinBounds
    /\ LET m == Missed(bsc) IN
       Record("Missed", m.st, m.err, m.calls, m.promoted)
    /\ UNCHANGED svcVars

CallSetRank ==
    /\ \E r \in StartRanks : Record("SetRank", SetRank(bsc, r), "void", 0, 0)
    /\ UNCHANGED svcVars

CallSetCurrentHeight ==
    /\ \E h \in Heights :
          Record("SetCurrentHeight", SetCurrentHeight(bsc, h), "void", 0, 0)
    /\ UNCHANGED svcVars

(***************************************************************************)
(* SCFilePV: the service and its message loop.                             *)
(*                                                                         *)
(* Thread 0 is the caller of Start() and Stop() from outside; thread i > 0 *)
(* is the goroutine that the i-th successful OnStart launched with         *)
(* `go pv.run()`.  Connection i is the one that OnStart dialed; run() of   *)
(* thread i builds its reader r and writer w on it.                        *)
(***************************************************************************)
ConnOpen(c) == c \in 1..starts /\ closes[c] = 0

\* conn.Close() on connection c, by any of its holders.
Close(c) == closes' = [closes EXCEPT ![c] = @ + 1]

Goto(t, label) == pc' = [pc EXCEPT ![t] = label]

\* The labels of run() from the ErrMustShutdown branch on.
ExitLabels == {"rclose", "wclose", "stop", "onstop_close", "onstop_send", "done"}

\* The run() goroutines that have been launched and have not returned.
Alive == {i \in Loops : pc[i] \notin {"none", "done"}}

\* The number of OnStop() runs so far, over all threads.
RECURSIVE Sum(_, _)
Sum(f, S) == IF S = {} THEN 0
             ELSE LET x == CHOOSE y \in S : TRUE IN f[x] + Sum(f, S \ {x})

TotalOnStops == Sum(onStops, Threads)

\* A loop iteration before its read.
NewIteration == [rres |-> "none", handled |-> 0, writes |-> 0, wres |-> "none"]

\* OnStart: loads the key, dials the validator, stores the connection in
\* pv.SecretConn and launches run().  (When the key cannot be loaded it
\* returns the error and nothing has changed.)
OnStart ==
    /\ starts' = starts + 1
    /\ secretConn' = starts + 1
    /\ Goto(starts + 1, "read")

\* BaseService.Start, called from outside: only a stopped service starts,
\* runs OnStart and is Running.
Start ==
    /\ pc[External] = "idle"
    /\ ~running
    /\ starts < MaxStarts
    /\ running' = TRUE
    /\ OnStart
    /\ UNCHANGED <<bsc, last, run, closes, herr, stopCalls, onStops,
                   termSignals, iter, closedAt>>

\* BaseService.Stop called by thread t: the one call that finds the
\* service running stops it and goes on to OnStop; any other call finds it
\* stopped and returns.
Stop(t, return) ==
    /\ stopCalls' = [stopCalls EXCEPT ![t] = @ + 1]
    /\ IF running
       THEN /\ running' = FALSE
            /\ onStops' = [onStops EXCEPT ![t] = @ + 1]
            /\ Goto(t, "onstop_close")
       ELSE /\ UNCHANGED <<running, onStops>>
            /\ Goto(t, return)

\* Stop() called from outside.
ExternalStop ==
    /\ pc[External] = "idle"
    /\ stopCalls[External] < MaxStops
    /\ Stop(External, "idle")
    /\ UNCHANGED <<bsc, last, run, starts, secretConn, closes, herr,
                   termSignals, iter, closedAt>>

\* OnStop as it would be without the close of the connection.
OnStopNoClose(t) ==
    /\ pc[t] = "onstop_close"
    /\ Goto(t, "onstop_send")
    /\ UNCHANGED <<bsc, last, run, running, starts, secretConn, closes, herr,
                   stopCalls, onStops, termSignals, iter, closedAt>>

\* OnStop: pv.SecretConn.Close().
OnStopClose(t) ==
    /\ pc[t] = "onstop_close"
    /\ Close(secretConn)
    /\ closedAt' = [closedAt EXCEPT ![t] = secretConn]
    /\ Goto(t, "onstop_send")
    /\ UNCHANGED <<bsc, last, run, running, starts, secretConn, herr, stopCalls,
                   onStops, termSignals, iter>>

\* OnStop: pv.TermCh <- struct{}{}, which completes when the waiter on the
\* unbuffered channel receives; Stop() then returns to its caller.
OnStopSend(t) ==
    /\ pc[t] = "onstop_send"
    /\ termSignals' = termSignals + 1
    /\ closedAt' = [closedAt EXCEPT ![t] = 0]
    /\ Goto(t, IF t = External THEN "idle" ELSE "done")
    /\ UNCHANGED <<bsc, last, run, running, starts, secretConn, closes, herr,
                   stopCalls, onStops, iter>>

\* run(): r.ReadMsg(&msg).  io.EOF continues the loop; any other error is
\* logged and the code goes on to HandleRequest, as a read without error
\* does.  A closed connection gives no message.
ReadMsg(i) ==
    /\ pc[i] = "read"
    /\ \E res \in (IF ConnOpen(i) THEN {"msg"} ELSE {}) \cup {"EOF", "error"} :
          /\ Goto(i, IF res = "EOF" THEN "read" ELSE "handle")
          /\ iter' = [iter EXCEPT ![i] = [NewIteration EXCEPT !.rres = res]]
    /\ UNCHANGED <<bsc, last, run, running, starts, secretConn, closes, herr,
                   stopCalls, onStops, termSignals, closedAt>>

\* HandleRequest(&msg, pv): the handler drives the counter through its
\* operations and reports the error of the call it made; it may also fail
\* for a reason of its own.  (The history of the calls, last and run, is
\* kept for the calls made on the counter directly, not for these.)
HandleRequest(i) ==
    /\ \/ /\ bsc' = LockCounter(bsc)
          /\ herr' = [herr EXCEPT ![i] = Nil]
       \/ /\ bsc' = UnlockCounter(bsc)
          /\ herr' = [herr EXCEPT ![i] = Nil]
       \/ /\ bsc' = Reset(bsc)
          /\ herr' = [herr EXCEPT ![i] = Nil]
       \/ /\ CounterWithinBounds
          /\ bsc' = Missed(bsc).st
          /\ herr' = [herr EXCEPT ![i] = Missed(bsc).err]
       \/ /\ UNCHANGED bsc
          /\ herr' = [herr EXCEPT ![i] = "ErrOther"]
    /\ UNCHANGED <<last, run>>

\* run(): resp, err := HandleRequest(&msg, pv).
Handle(i) ==
    /\ pc[i] = "handle"
    /\ HandleRequest(i)
    /\ iter' = [iter EXCEPT ![i].handled = @ + 1]
    /\ Goto(i, "write")
    /\ UNCHANGED <<running, starts, secretConn, closes, stopCalls, onStops,
                   termSignals, closedAt>>

\* run() as it would be if the response were written only when the
\* handler returned no error.
WriteMsgOnSuccessOnly(i) ==
    /\ pc[i] = "write"
    /\ IF herr[i] = Nil
       THEN \E res \in (IF ConnOpen(i) THEN {"ok"} ELSE {}) \cup {"failed"} :
               iter' = [iter EXCEPT ![i].writes = @ + 1, ![i].wres = res]
       ELSE UNCHANGED iter
    /\ Goto(i, "react")
    /\ UNCHANGED <<bsc, last, run, running, starts, secretConn, closes, herr,
                   stopCalls, onStops, termSignals, closedAt>>

\* run(): w.WriteMsg(resp); a failure is logged and nothing else.  A
\* closed connection takes no response.
WriteMsg(i) ==
    /\ pc[i] = "write"
    /\ \E res \in (IF ConnOpen(i) THEN {"ok"} ELSE {}) \cup {"failed"} :
          iter' = [iter EXCEPT ![i].writes = @ + 1, ![i].wres = res]
    /\ Goto(i, "react")
    /\ UNCHANGED <<bsc, last, run, running, starts, secretConn, closes, herr,
                   stopCalls, onStops, termSignals, closedAt>>

\* run() as it would be if every error of the handler ended the loop.
ReactAnyError(i) ==
    /\ pc[i] = "react"
    /\ Goto(i, IF herr[i] # Nil THEN "rclose" ELSE "read")
    /\ UNCHANGED <<bsc, last, run, running, starts, secretConn, closes, herr,
                   stopCalls, onStops, termSignals, iter, closedAt>>

\* run(): if err != nil { ...; if err == types.ErrMustShutdown { ... } }.
React(i) ==
    /\ pc[i] = "react"
    /\ Goto(i, IF herr[i] = ErrMustShutdown THEN "rclose" ELSE "read")
    /\ UNCHANGED <<bsc, last, run, running, starts, secretConn, closes, herr,
                   stopCalls, onStops, termSignals, iter, closedAt>>

\* run(): r.Close().  The delimited reader of tendermint's libs/protoio
\* closes the io.Closer it reads from, here the connection.
ReaderClose(i) ==
    /\ pc[i] = "rclose"
    /\ Close(i)
    /\ Goto(i, "wclose")
    /\ UNCHANGED <<bsc, last, run, running, starts, secretConn, herr, stopCalls,
                   onStops, termSignals, iter, closedAt>>

\* run(): w.Close().  The delimited writer of tendermint's libs/protoio
\* closes the io.Closer it writes to, here the connection.
WriterClose(i) ==
    /\ pc[i] = "wclose"
    /\ Close(i)
    /\ Goto(i, "stop")
    /\ UNCHANGED <<bsc, last, run, running, starts, secretConn, herr, stopCalls,
                   onStops, termSignals, iter, closedAt>>

\* run() as it would be if it called pv.OnStop() itself.
LoopCallsOnStop(i) ==
    /\ pc[i] = "stop"
    /\ stopCalls' = [stopCalls EXCEPT ![i] = @ + 1]
    /\ onStops' = [onStops EXCEPT ![i] = @ + 1]
    /\ Goto(i, "onstop_close")
    /\ UNCHANGED <<bsc, last, run, running, starts, secretConn, closes, herr,
                   termSignals, iter, closedAt>>

\* run(): pv.Stop(); return.
LoopStop(i) ==
    /\ pc[i] = "stop"
    /\ Stop(i, "done")
    /\ UNCHANGED <<bsc, last, run, starts, secretConn, closes, herr,
                   termSignals, iter, closedAt>>

Init ==
    /\ \E t \in Thresholds, r \in StartRanks : bsc = NewBaseSignCtrled(t, r)
    /\ last = [op |-> "New", err |-> "void", pre |-> bsc,
               calls |-> 0, promoted |-> 0, prev |-> "New", unlocked |-> FALSE]
    /\ run = [len |-> 0, start |-> bsc, calls |-> 0, promoted |-> 0]
    /\ running = FALSE
    /\ starts = 0
    /\ secretConn = 0
    /\ closes = [c \in Loops |-> 0]
    /\ pc = [t \in Threads |-> IF t = External THEN "idle" ELSE "none"]
    /\ herr = [i \in Loops |-> Nil]
    /\ stopCalls = [t \in Threads |-> 0]
    /\ onStops = [t \in Threads |-> 0]
    /\ termSignals = 0
    /\ iter = [i \in Loops |-> NewIteration]
    /\ closedAt = [t \in Threads |-> 0]

\* The five operations of the counter.
NextCore ==
    \/ CallLockCounter
    \/ CallUnlockCounter
    \/ CallMissed
    \/ CallReset
    \/ CallPromote

\* Every method BaseSignCtrled exposes that changes the struct.
Next ==
    \/ NextCore
    \/ CallSetRank
    \/ CallSetCurrentHeight

\* The service: the outside caller and the message loops.
NextService ==
    \/ Start
    \/ ExternalStop
    \/ \E t \in Threads : OnStopClose(t) \/ OnStopSend(t)
    \/ \E i \in Loops :
          \/ ReadMsg(i)
          \/ Handle(i)
          \/ WriteMsg(i)
          \/ React(i)
          \/ ReaderClose(i)
          \/ WriterClose(i)
          \/ LoopStop(i)

Spec == Init /\ [][Next]_vars

SpecCore == Init /\ [][NextCore]_vars

\* The service is explored with the smallest threshold, started as the
\* signer (rank 1) or as its first backup (rank 2).
InitService ==
    /\ Init
    /\ bsc.threshold = MinThreshold
    /\ bsc.rank \in {1, 2}

SpecService == InitService /\ [][NextService]_vars

\* The service with the goroutine of run() scheduled on the path it takes
\* after ErrMustShutdown, and with a waiter that receives from pv.TermCh
\* whenever OnStop is blocked in its send.
FairShutdown ==
    \A i \in Loops :
        /\ WF_vars(ReaderClose(i))
        /\ WF_vars(WriterClose(i))
        /\ WF_vars(LoopStop(i))
        /\ WF_vars(OnStopClose(i))
        /\ WF_vars(OnStopSend(i))

SpecServiceFair == InitService /\ [][NextService]_vars /\ FairShutdown

(***************************************************************************)
(* Properties of BaseSignCtrled.                                           *)
(***************************************************************************)
\* A run of consecutive Missed() calls that began unlocked, with
\* missedInARow = 0 and a rank above 1, and is at most threshold calls long.
RunFromZeroAboveRankOne ==
    /\ run.len \in 1..run.start.threshold
    /\ ~run.start.counterLocked
    /\ run.start.missedInARow = 0
    /\ run.start.rank > 1

\* C1: in a run of consecutive Missed() calls that starts unlocked with
\* missedInARow = 0 and rank > 1, no call before the threshold-th invokes
\* Promote() and the rank stays; the threshold-th call invokes Promote()
\* exactly once, successfully, and leaves missedInARow = 0 and the rank
\* exactly 1 below the rank before the run.
C1_ThresholdthMissPromotesOnce ==
    RunFromZeroAboveRankOne =>
        /\ run.len < run.start.threshold =>
              /\ run.calls = 0
              /\ bsc.rank = run.start.rank
              /\ bsc.missedInARow = run.len
        /\ run.len = run.start.threshold =>
              /\ run.calls = 1
              /\ run.promoted = 1
              /\ last.calls = 1
              /\ bsc.missedInARow = 0
              /\ bsc.rank = run.start.rank - 1

C1_Witness ==
    /\ RunFromZeroAboveRankOne
    /\ run.len = run.start.threshold
    /\ run.start.threshold = MaxThreshold
    /\ bsc.rank = run.start.rank - 1

\* C2: a Missed() call made while counterLocked is true returns
\* ErrCounterLocked and leaves the whole struct as it was; and no call at
\* all raises missedInARow from a state in which counterLocked is true.
C2_LockedMissedChangesNothing ==
    /\ (last.op = "Missed" /\ last.pre.counterLocked) =>
          /\ last.err = ErrCounterLocked
          /\ bsc = last.pre
    /\ bsc.missedInARow > last.pre.missedInARow => ~last.pre.counterLocked

C2_Witness ==
    /\ last.op = "Missed"
    /\ last.pre.counterLocked
    /\ last.pre.missedInARow > 0
    /\ last.err = ErrCounterLocked

\* C3: a Promote() call made at rank 1 returns ErrMustShutdown and leaves
\* every field of the struct as it was.
C3_PromoteAtRankOneChangesNothing ==
    (last.op = "Promote" /\ last.pre.rank = 1) =>
        /\ last.err = ErrMustShutdown
        /\ bsc = last.pre

C3_Witness ==
    /\ last.op = "Promote"
    /\ last.pre.rank = 1
    /\ last.pre.missedInARow > 0
    /\ ~last.pre.counterLocked
    /\ last.err = ErrMustShutdown

\* C4: at rank 1 with the counter unlocked, the Missed() call that brings
\* missedInARow to threshold returns ErrMustShutdown and leaves rank and
\* currentHeight as they were; the calls that leave missedInARow below
\* threshold return nil.
C4_MissedAtRankOneMustShutdown ==
    (last.op = "Missed" /\ ~last.pre.counterLocked /\ last.pre.rank = 1) =>
        /\ last.pre.missedInARow + 1 = last.pre.threshold =>
              /\ last.err = ErrMustShutdown
              /\ bsc.rank = last.pre.rank
              /\ bsc.currentHeight = last.pre.currentHeight
        /\ last.pre.missedInARow + 1 < last.pre.threshold =>
              last.err = Nil

C4_Witness ==
    /\ last.op = "Missed"
    /\ last.pre.rank = 1
    /\ last.pre.missedInARow + 1 = last.pre.threshold
    /\ last.err = ErrMustShutdown
    /\ run.len = last.pre.threshold

\* C5: a Missed() call in which Promote() succeeded leaves currentHeight
\* exactly 1 above its value before the call and returns
\* ErrThresholdExceeded.
C5_PromotionSkipsOneHeight ==
    (last.op = "Missed" /\ last.promoted = 1) =>
        /\ bsc.currentHeight = last.pre.currentHeight + 1
        /\ last.err = ErrThresholdExceeded

C5_Witness ==
    /\ last.op = "Missed"
    /\ last.promoted = 1
    /\ last.pre.currentHeight > GenesisHeight
    /\ last.err = ErrThresholdExceeded

\* C6: 0 <= missedInARow <= threshold in every state reachable by
\* LockCounter, UnlockCounter, Missed, Reset and Promote calls.
C6_MissedInARowWithinThreshold ==
    /\ 0 <= bsc.missedInARow
    /\ bsc.missedInARow <= bsc.threshold

\* C7: a Missed() call that brings the counter to threshold promotes
\* exactly once and leaves missedInARow = 0; after no Missed() call is
\* missedInARow left at threshold.
C7_ThresholdIsOneShot ==
    last.op = "Missed" =>
        /\ bsc.missedInARow # bsc.threshold
        /\ (~last.pre.counterLocked
              /\ last.pre.missedInARow + 1 = last.pre.threshold) =>
              /\ last.promoted = 1
              /\ bsc.missedInARow = 0

\* C8: rank >= 1 in every state reachable from NewBaseSignCtrled, started
\* with the configured start_rank, by LockCounter, UnlockCounter, Missed,
\* Reset and Promote calls.
C8_RankAtLeastOne ==
    bsc.rank >= 1

\* C9 as stated: no call of any method BaseSignCtrled exposes raises the
\* rank, and a call that changes the rank lowers it by exactly 1.
C9_RankNeverIncreases ==
    /\ bsc.rank <= last.pre.rank
    /\ bsc.rank # last.pre.rank => bsc.rank = last.pre.rank - 1

\* C9 as amended: no call of LockCounter, UnlockCounter, Missed, Reset,
\* Promote or SetCurrentHeight raises the rank, and such a call that
\* changes the rank lowers it by exactly 1; SetRank is the one method that
\* can set it to any value.
C9_RankNeverIncreasesExceptSetRank ==
    last.op # "SetRank" =>
        /\ bsc.rank <= last.pre.rank
        /\ bsc.rank # last.pre.rank => bsc.rank = last.pre.rank - 1

C9_Witness ==
    /\ last.op = "Promote"
    /\ last.err = Nil
    /\ bsc.rank = last.pre.rank - 1
    /\ bsc.rank >= 1

\* C13: LockCounter and UnlockCounter are idempotent and round-trip, and
\* each changes counterLocked alone: rank, currentHeight, missedInARow and
\* threshold stay, so locking keeps the misses already counted.
C13_LockUnlockRoundTrip ==
    /\ LockCounter(UnlockCounter(bsc)).counterLocked
    /\ ~UnlockCounter(LockCounter(bsc)).counterLocked
    /\ LockCounter(LockCounter(bsc)) = LockCounter(bsc)
    /\ UnlockCounter(UnlockCounter(bsc)) = UnlockCounter(bsc)
    /\ last.op = "LockCounter" =>
          bsc = [last.pre EXCEPT !.counterLocked = TRUE]
    /\ last.op = "UnlockCounter" =>
          bsc = [last.pre EXCEPT !.counterLocked = FALSE]
    /\ (last.op = "LockCounter" /\ last.prev = "UnlockCounter") =>
          bsc.counterLocked
    /\ (last.op = "UnlockCounter" /\ last.prev = "LockCounter") =>
          ~bsc.counterLocked

C13_Witness ==
    /\ last.op = "LockCounter"
    /\ last.prev = "UnlockCounter"
    /\ ~last.pre.counterLocked
    /\ bsc.counterLocked
    /\ bsc.missedInARow > 0

\* C14: the struct is constructed locked, at height 1 with no misses;
\* every Missed() call before the first UnlockCounter() returns
\* ErrCounterLocked, invokes no Promote() and changes nothing; and the
\* Missed() call right after an UnlockCounter() counts the miss as an
\* unlocked call does.
C14_LockedUntilFirstUnlock ==
    /\ last.op = "New" =>
          /\ bsc.counterLocked
          /\ bsc.currentHeight = GenesisHeight
          /\ bsc.missedInARow = 0
    /\ (last.op = "Missed" /\ ~last.unlocked) =>
          /\ last.err = ErrCounterLocked
          /\ last.calls = 0
          /\ bsc = last.pre
    /\ (last.op = "Missed" /\ last.prev = "UnlockCounter") =>
          /\ last.err # ErrCounterLocked
          /\ last.pre.missedInARow + 1 < bsc.threshold =>
                /\ last.err = Nil
                /\ bsc = [last.pre EXCEPT !.missedInARow = @ + 1]
          /\ last.pre.missedInARow + 1 = bsc.threshold =>
                /\ last.calls = 1
                /\ last.err \in {ErrThresholdExceeded, ErrMustShutdown}

C14_Witness ==
    /\ last.op = "Missed"
    /\ last.prev = "UnlockCounter"
    /\ last.err = Nil
    /\ bsc.missedInARow = 1
    /\ run.len = 1

\* C18: a call returns ErrMustShutdown only if it is a Promote() or a
\* Missed() made at rank 1, and a Missed() only if the counter was
\* unlocked and the call brought missedInARow to threshold.
C18_MustShutdownOnlyAtRankOne ==
    last.err = ErrMustShutdown =>
        /\ last.op \in {"Promote", "Missed"}
        /\ last.pre.rank = 1
        /\ bsc.rank = 1
        /\ last.op = "Missed" =>
              /\ ~last.pre.counterLocked
              /\ last.pre.missedInARow + 1 = last.pre.threshold
              /\ last.calls = 1

C18_Witness ==
    /\ last.err = ErrMustShutdown
    /\ last.op = "Missed"
    /\ last.pre.rank = 1
    /\ last.pre.threshold = MaxThreshold

\* A run of consecutive Missed() calls that began unlocked, with
\* missedInARow = 0 and a rank N >= 1, and is at most N * threshold long.
RunToShutdown ==
    /\ run.len >= 1
    /\ ~run.start.counterLocked
    /\ run.start.missedInARow = 0
    /\ run.start.rank >= 1
    /\ run.len <= run.start.rank * run.start.threshold

\* C19: in a run of n consecutive Missed() calls from rank N >= 1 with
\* threshold T, unlocked and missedInARow = 0: the calls k*T, k = 1..N-1,
\* return ErrThresholdExceeded and leave rank N-k; call N*T is the first
\* to return ErrMustShutdown; every other call returns nil; there are
\* exactly N-1 promotions and currentHeight has grown by N-1 at shutdown.
C19_ShutdownAfterNTimesT ==
    RunToShutdown =>
        LET N == run.start.rank
            T == run.start.threshold
            n == run.len
            k == IF n = N * T THEN N - 1 ELSE n \div T
        IN /\ run.promoted = k
           /\ bsc.rank = N - k
           /\ bsc.currentHeight = run.start.currentHeight + k
           /\ last.err = (IF n = N * T THEN ErrMustShutdown
                          ELSE IF n % T = 0 THEN ErrThresholdExceeded
                          ELSE Nil)

C19_Witness ==
    /\ RunToShutdown
    /\ run.start.rank = MaxRank
    /\ run.start.threshold = MaxThreshold
    /\ run.start.currentHeight = GenesisHeight
    /\ run.len = MaxRank * MaxThreshold
    /\ last.err = ErrMustShutdown
    /\ run.promoted = MaxRank - 1
    /\ bsc.currentHeight = GenesisHeight + (MaxRank - 1)

(***************************************************************************)
(* Properties of SCFilePV.                                                 *)
(***************************************************************************)
\* C10: on the path that run() takes when HandleRequest returns
\* ErrMustShutdown, no connection has Close() called on it after it was
\* closed, under any interleaving with a Stop() from outside; and once
\* run() has returned, its connection was closed exactly once, it called
\* pv.Stop() exactly once and the service it ran for is Stopped.
C10_FatalPathClosesOnce ==
    \A i \in Loops :
        /\ closes[i] <= 1
        /\ pc[i] = "done" =>
              /\ closes[i] = 1
              /\ stopCalls[i] = 1
              /\ secretConn = i => ~running

\* The threads that are inside OnStop().
InOnStop == {t \in Threads : pc[t] \in {"onstop_close", "onstop_send"}}

C15_OneLoopAlive ==
    /\ Cardinality(Alive) <= 1
    /\ Cardinality({i \in Loops : pc[i] = "handle"}) <= 1

\* C16: in an iteration whose read failed, with io.EOF or with any other
\* error, HandleRequest is not called and no response is written.
C16_FailedReadSkipsMessage ==
    \A i \in Loops :
        iter[i].rres \in {"EOF", "error"} =>
            /\ iter[i].handled = 0
            /\ iter[i].writes = 0
            /\ pc[i] \notin ExitLabels

\* C17: an iteration that calls HandleRequest calls WriteMsg exactly once,
\* after the handler and before the reaction to its error, also when the
\* error is ErrMustShutdown; whether the write failed decides nothing:
\* run() is on its way out exactly when the error was ErrMustShutdown.
C17_OneWritePerHandledMessage ==
    \A i \in Loops :
        /\ pc[i] = "handle" => (iter[i].handled = 0 /\ iter[i].writes = 0)
        /\ pc[i] = "write" =>
              /\ iter[i].handled = 1
              /\ iter[i].writes = 0
              /\ stopCalls[i] = 0
        /\ pc[i] \in {"react"} \cup ExitLabels =>
              (iter[i].handled = 1 /\ iter[i].writes = 1)
        /\ pc[i] = "read" => iter[i].writes = iter[i].handled
        /\ (pc[i] \in ExitLabels /\ iter[i].wres = "failed") =>
              herr[i] = ErrMustShutdown
        /\ (pc[i] = "read" /\ iter[i].wres = "failed") =>
              herr[i] # ErrMustShutdown

C17_Witness ==
    \E i \in Loops :
        /\ pc[i] = "done"
        /\ iter[i].writes = 1
        /\ iter[i].wres = "failed"
        /\ herr[i] = ErrMustShutdown

\* What holds of OnStop() in every state: a thread blocked in the send on
\* pv.TermCh has closed a connection before; and every OnStop() run that
\* has returned handed one signal to the waiter.
OnStopOrder ==
    /\ \A t \in Threads :
          pc[t] = "onstop_send" =>
              (closedAt[t] # 0 /\ closes[closedAt[t]] >= 1)
    /\ termSignals = TotalOnStops - Cardinality(InOnStop)
    /\ \A i \in Loops : (pc[i] = "done" /\ onStops[i] = 1) => termSignals >= 1

\* C20 as stated: like the amended claim below, except that every run()
\* that has returned, whether or not its own Stop() ran OnStop(), has
\* returned after the waiter received a signal from pv.TermCh.
C20_EveryReturnAfterSignal ==
    /\ []OnStopOrder
    /\ [](\A i \in Loops : pc[i] = "done" => termSignals >= 1)
    /\ \A i \in Loops : (pc[i] = "rclose") ~> (pc[i] = "done")

\* C20 as amended: OnStop() closes the connection before it sends on
\* pv.TermCh; the Stop() that runs OnStop() returns only once the waiter
\* has received (a Stop() that finds the service stopped returns at once);
\* and, with the goroutine scheduled and the waiter receiving, a run()
\* that took the ErrMustShutdown branch returns.
C20_CloseThenBlockingSignal ==
    /\ []OnStopOrder
    /\ \A i \in Loops : (pc[i] = "rclose") ~> (pc[i] = "done")

C20_Witness ==
    \E i \in Loops :
        /\ pc[i] = "done"
        /\ onStops[i] = 1
        /\ termSignals = 1
        /\ closes[i] >= 1

====
